---- MODULE Spec2Model ----
(***************************************************************************)
(* thermy: the cat-printer protocol encoder (CatProtocol, CatPrinter.make) *)
(* and the MTU-bounded transport buffer with its printer session           *)
(* (CatPrinter.pend / flush / send / draw / prepare / finish).             *)
(*                                                                         *)
(* Bytes are integers 0..255, byte strings are sequences of bytes.  The    *)
(* session is one asyncio coroutine chain: it runs atomically between the  *)
(* points where it suspends (asyncio.sleep, the awaited sink write), and   *)
(* only at those points, or between calls, can anything else run.          *)
(***************************************************************************)
EXTENDS Integers, Sequences, FiniteSets, TLC

(***************************************************************************)
(* Bounds of the model.                                                    *)
(***************************************************************************)
\* top-level calls (prepare, finish, draw, draw_pbm, flush) made on a session
MaxCalls == 2
\* sink writes that fail in one run
MaxFails == 1

(***************************************************************************)
(* Python's integer operators on non-negative integers.                    *)
(***************************************************************************)
RECURSIVE BitAnd(_, _)
BitAnd(a, b) ==
  IF a = 0 \/ b = 0 THEN 0
  ELSE ((a % 2) * (b % 2)) + 2 * BitAnd(a \div 2, b \div 2)

RECURSIVE BitOr(_, _)
BitOr(a, b) ==
  IF a = 0 THEN b
  ELSE IF b = 0 THEN a
  ELSE (IF a % 2 = 1 \/ b % 2 = 1 THEN 1 ELSE 0) + 2 * BitOr(a \div 2, b \div 2)

RECURSIVE BitXor(_, _)
BitXor(a, b) ==
  IF a = 0 THEN b
  ELSE IF b = 0 THEN a
  ELSE ((a + b) % 2) + 2 * BitXor(a \div 2, b \div 2)

Shr(a, k) == a \div (2 ^ k)

Shl(a, k) == a * (2 ^ k)

\* the values a bytes object can hold: bytes([...]) raises ValueError otherwise
Byte == 0 .. \Hff

\* crc ^ byte for two bytes, tabulated once
XorByte == [a \in Byte |-> [b \in Byte |-> BitXor(a, b)]]

(***************************************************************************)
(* CatProtocol                                                             *)
(***************************************************************************)
CRC8_TABLE ==
  <<
    \H00, \H07, \H0e, \H09, \H1c, \H1b, \H12, \H15, \H38, \H3f, \H36, \H31,
    \H24, \H23, \H2a, \H2d, \H70, \H77, \H7e, \H79, \H6c, \H6b, \H62, \H65,
    \H48, \H4f, \H46, \H41, \H54, \H53, \H5a, \H5d, \He0, \He7, \Hee, \He9,
    \Hfc, \Hfb, \Hf2, \Hf5, \Hd8, \Hdf, \Hd6, \Hd1, \Hc4, \Hc3, \Hca, \Hcd,
    \H90, \H97, \H9e, \H99, \H8c, \H8b, \H82, \H85, \Ha8, \Haf, \Ha6, \Ha1,
    \Hb4, \Hb3, \Hba, \Hbd, \Hc7, \Hc0, \Hc9, \Hce, \Hdb, \Hdc, \Hd5, \Hd2,
    \Hff, \Hf8, \Hf1, \Hf6, \He3, \He4, \Hed, \Hea, \Hb7, \Hb0, \Hb9, \Hbe,
    \Hab, \Hac, \Ha5, \Ha2, \H8f, \H88, \H81, \H86, \H93, \H94, \H9d, \H9a,
    \H27, \H20, \H29, \H2e, \H3b, \H3c, \H35, \H32, \H1f, \H18, \H11, \H16,
    \H03, \H04, \H0d, \H0a, \H57, \H50, \H59, \H5e, \H4b, \H4c, \H45, \H42,
    \H6f, \H68, \H61, \H66, \H73, \H74, \H7d, \H7a, \H89, \H8e, \H87, \H80,
    \H95, \H92, \H9b, \H9c, \Hb1, \Hb6, \Hbf, \Hb8, \Had, \Haa, \Ha3, \Ha4,
    \Hf9, \Hfe, \Hf7, \Hf0, \He5, \He2, \Heb, \Hec, \Hc1, \Hc6, \Hcf, \Hc8,
    \Hdd, \Hda, \Hd3, \Hd4, \H69, \H6e, \H67, \H60, \H75, \H72, \H7b, \H7c,
    \H51, \H56, \H5f, \H58, \H4d, \H4a, \H43, \H44, \H19, \H1e, \H17, \H10,
    \H05, \H02, \H0b, \H0c, \H21, \H26, \H2f, \H28, \H3d, \H3a, \H33, \H34,
    \H4e, \H49, \H40, \H47, \H52, \H55, \H5c, \H5b, \H76, \H71, \H78, \H7f,
    \H6a, \H6d, \H64, \H63, \H3e, \H39, \H30, \H37, \H22, \H25, \H2c, \H2b,
    \H06, \H01, \H08, \H0f, \H1a, \H1d, \H14, \H13, \Hae, \Ha9, \Ha0, \Ha7,
    \Hb2, \Hb5, \Hbc, \Hbb, \H96, \H91, \H98, \H9f, \H8a, \H8d, \H84, \H83,
    \Hde, \Hd9, \Hd0, \Hd7, \Hc2, \Hc5, \Hcc, \Hcb, \He6, \He1, \He8, \Hef,
    \Hfa, \Hfd, \Hf4, \Hf3
  >>

APPLY_ENERGY == \Hbe
GET_DEVICE_STATE == \Ha3
UPDATE_DEVICE == \Ha9
SET_DPI == \Ha4
LATTICE == \Ha6
FEED == \Ha1
SPEED == \Hbd
ENERGY == \Haf
BITMAP == \Ha2

TRANSFER == 0
RESPONSE == 1

\* crc8: the loop "for byte in data: crc = CRC8_TABLE[(crc ^ byte) & 0xff]"
\* from crc = 0.  fold[<<lo, hi, crc>>] is the value of crc after the loop has
\* consumed data[lo..hi] starting from crc; a range is split in two halves
\* consumed one after the other, so the bytes are taken in order.
crc8(data) ==
  LET fold[r \in Nat \X Nat \X Byte] ==
        LET lo == r[1]
            hi == r[2]
            crc == r[3]
        IN  IF lo > hi THEN crc
            ELSE IF lo = hi
              THEN CRC8_TABLE[(XorByte[crc][data[lo]] % 256) + 1]
              ELSE fold[<<((lo + hi) \div 2) + 1, hi,
                          fold[<<lo, (lo + hi) \div 2, crc>>]>>]
  IN  fold[<<1, Len(data), 0>>] % 256

reverse_bits(i) ==
  LET i1 == BitOr(Shr(BitAnd(i, \Haa), 1), Shl(BitAnd(i, \H55), 1))
      i2 == BitOr(Shr(BitAnd(i1, \Hcc), 2), Shl(BitAnd(i1, \H33), 2))
  IN  BitOr(Shr(BitAnd(i2, \Hf0), 4), Shl(BitAnd(i2, \H0f), 4))

\* bytes_from_int with big_endian = False, for i >= 0: the first loop takes the
\* low bytes of i while i is not 0 and fewer than length were taken, the
\* second pads with zeros to length.
RECURSIVE bytes_from_int_loop(_, _, _)
bytes_from_int_loop(i, p, length) ==
  IF i # 0 /\ p < length
    THEN <<BitAnd(i, \Hff)>> \o bytes_from_int_loop(Shr(i, 8), p + 1, length)
    ELSE <<>>

bytes_from_int(i, length) ==
  LET result == bytes_from_int_loop(i, 0, length)
  IN  result \o [k \in 1 .. (length - Len(result)) |-> 0]

\* make that writes the length field high byte first
make_big_endian(command, payload, cmd_type) ==
  LET payload_len == Len(payload)
      header == <<\H51, \H78, command, cmd_type,
                  Shr(payload_len, 8), BitAnd(payload_len, \Hff)>>
  IN  IF \E k \in 1 .. 6 : header[k] \notin Byte
        THEN <<-1>>
        ELSE header \o payload \o <<crc8(payload), \Hff>>

\* make that masks the high length byte instead of letting bytes() reject it
make_wrapping(command, payload, cmd_type) ==
  LET payload_len == Len(payload)
      header == <<\H51, \H78, command, cmd_type,
                  BitAnd(payload_len, \Hff), BitAnd(Shr(payload_len, 8), \Hff)>>
  IN  header \o payload \o <<crc8(payload), \Hff>>

(***************************************************************************)
(* CatPrinter.make                                                         *)
(***************************************************************************)
\* make raising ValueError is modelled as make returning this value: a
\* one-element sequence of a number that is no byte, which no frame equals
\* (a frame has at least 8 elements).
Raise_ValueError == <<-1>>

\* bytes([0x51, 0x78, command, cmd_type, payload_len & 0xff, payload_len >> 8])
\* raises ValueError when an element is not in range(0, 256); it is evaluated
\* before crc8(payload).
make(command, payload, cmd_type) ==
  LET payload_len == Len(payload)
      header == <<\H51, \H78, command, cmd_type,
                  BitAnd(payload_len, \Hff), Shr(payload_len, 8)>>
  IN  IF \E k \in 1 .. 6 : header[k] \notin Byte
        THEN Raise_ValueError
        ELSE header \o payload \o <<crc8(payload), \Hff>>

(***************************************************************************)
(* CatPrinter: the session state                                           *)
(***************************************************************************)
mtu == 200

VARIABLES
  buffer,       \* self.buffer: bytearray(mtu)
  buffer_size,  \* self.buffer_size
  pause,        \* self.state['pause']
  sink,         \* every call of self.write so far: [data, off, st]
  todo,         \* the awaited calls the running coroutine still has to make
  status,       \* "idle", "running", "returned" or the exception raised
  call,         \* the top-level call running or last run, and the state it met
  fl,           \* the flush call running or last run, and the state it met
  sd,           \* the send call running or last run, and the state it met
  ev,           \* what the session's last step did
  ncalls,       \* top-level calls made
  nfails,       \* sink writes that failed
  nflush,       \* calls of flush made
  sent,         \* every byte passed to send, in call order
  sent_len,     \* the length of each byte string passed to send, in call order
  nstored,      \* bytes stored into the buffer by pend
  mk_arg,       \* make alone: <<command, payload, cmd_type>>
  mk_res,       \* make alone: <<>> before the call, then <<what make returned>>
  im_arg,       \* image functions alone: the function called and its arguments
  im_loc,       \* image functions alone: the locals of the running function
  im_res        \* image functions alone: <<>>, then <<what the function returned>>

session == <<buffer, buffer_size, pause, sink, todo, status, call, fl, sd, ev,
             ncalls, nfails, nflush, sent, sent_len, nstored>>

image == <<im_arg, im_loc, im_res>>

vars == <<buffer, buffer_size, pause, sink, todo, status, call, fl, sd, ev,
          ncalls, nfails, nflush, sent, sent_len, nstored, mk_arg, mk_res,
          im_arg, im_loc, im_res>>

\* the whole bytearray for its filled part: bytes(self.buffer)
buffered_whole == buffer

\* bytes(self.buffer[:self.buffer_size])
buffered == SubSeq(buffer, 1, buffer_size)

RECURSIVE Flat(_)
Flat(ss) == IF ss = <<>> THEN <<>> ELSE Head(ss) \o Flat(Tail(ss))

\* the byte strings handed to self.write since the first n of them
WritesSince(n) == [k \in 1 .. (Len(sink) - n) |-> sink[n + k].data]

(***************************************************************************)
(* CatPrinter.pend                                                         *)
(***************************************************************************)
\* pend on a buffer that grows instead of raising IndexError
pend_unchecked(buf, size, data) ==
  [buffer |-> SubSeq(buf, 1, size) \o data
                \o SubSeq(buf, size + Len(data) + 1, Len(buf)),
   buffer_size |-> size + Len(data),
   raised |-> FALSE]

\* for i in range(len(data)): self.buffer[self.buffer_size] = data[i];
\*                            self.buffer_size += 1
\* The result of the loop on buffer buf with cursor size: it stores bytes
\* while the cursor is an index of buf, and the assignment at index len(buf)
\* raises IndexError, leaving what was stored so far.
pend(buf, size, data) ==
  LET room == Len(buf) - size
      n == IF Len(data) <= room THEN Len(data) ELSE room
  IN  [buffer |-> [k \in 1 .. Len(buf) |->
                     IF k > size /\ k <= size + n THEN data[k - size] ELSE buf[k]],
       buffer_size |-> size + n,
       raised |-> Len(data) > room]

(***************************************************************************)
(* The awaited calls a method makes, in order.  An element is              *)
(*   [k |-> "flush"]        await self.flush()                             *)
(*   [k |-> "send", data]   await self.send(data)                          *)
(*   [k |-> "raise"]        evaluating the argument of send raised         *)
(* and, once inside a call,                                                *)
(*   [k |-> "sleep"]        flush suspended in asyncio.sleep(0.1)          *)
(*   [k |-> "write", data]  flush suspended in await self.write(data)      *)
(*   [k |-> "delay"]        flush suspended in asyncio.sleep(0.02)         *)
(*   [k |-> "pend", data]   send about to call self.pend(data)             *)
(***************************************************************************)
Instr(kind, data) == [k |-> kind, data |-> data]

flush == <<Instr("flush", <<>>)>>

send(data) == <<Instr("send", data)>>

sendmake(frame) ==
  IF frame = Raise_ValueError THEN <<Instr("raise", <<>>)>> ELSE send(frame)

\* draw that flushes the buffer itself before it enqueues the frame
draw_flushing(line) == flush \o sendmake(make(BITMAP, line, TRANSFER))

draw(line) == sendmake(make(BITMAP, line, TRANSFER))

reversed == [b \in Byte |-> reverse_bits(b)]

draw_pbm(line) == draw([k \in 1 .. Len(line) |-> reversed[line[k]]])

apply_energy == sendmake(make(APPLY_ENERGY, bytes_from_int(\H01, 1), TRANSFER))

get_device_state == sendmake(make(GET_DEVICE_STATE, bytes_from_int(\H00, 1), TRANSFER))

update_device == sendmake(make(UPDATE_DEVICE, bytes_from_int(\H00, 1), TRANSFER))

set_dpi == sendmake(make(SET_DPI, bytes_from_int(50, 1), TRANSFER))

start_lattice_payload ==
  <<\Haa, \H55, \H17, \H38, \H44, \H5f, \H5f, \H5f, \H44, \H38, \H2c>>

start_lattice == sendmake(make(LATTICE, start_lattice_payload, TRANSFER))

end_lattice_payload ==
  <<\Haa, \H55, \H17, \H00, \H00, \H00, \H00, \H00, \H00, \H00, \H17>>

end_lattice == sendmake(make(LATTICE, end_lattice_payload, TRANSFER))

feed(points) == sendmake(make(FEED, bytes_from_int(points, 2), TRANSFER))

set_speed(value) == sendmake(make(SPEED, bytes_from_int(value, 1), TRANSFER))

set_energy(value) == sendmake(make(ENERGY, bytes_from_int(value, 2), TRANSFER))

prepare_camera_cmd == <<\H51, \H78, \Hbc, \H00, \H01, \H02, \H01, \H2d, \Hff>>

prepare_camera == send(prepare_camera_cmd)

\* prepare that sets the energy before the speed
prepare_reordered(speed, energy) ==
  flush \o get_device_state \o prepare_camera \o set_dpi \o set_energy(energy)
    \o set_speed(speed) \o apply_energy \o update_device \o start_lattice
    \o flush

prepare(speed, energy) ==
  flush \o get_device_state \o prepare_camera \o set_dpi \o set_speed(speed)
    \o set_energy(energy) \o apply_energy \o update_device \o start_lattice
    \o flush

\* finish without its first flush
finish_unflushed(extra_feed) ==
  end_lattice \o set_speed(8) \o feed(extra_feed) \o get_device_state \o flush

finish(extra_feed) ==
  flush \o end_lattice \o set_speed(8) \o feed(extra_feed)
    \o get_device_state \o flush

(***************************************************************************)
(* The calls made on a session: the arguments tried, and each call's body  *)
(* evaluated once.  draw and draw_pbm take their line by its index.        *)
(***************************************************************************)
Line(n) == [i \in 1 .. n |-> (i * 37 + n) % 256]

\* 48 bytes is a line of the default 384-pixel paper; 192 makes a frame of
\* exactly mtu bytes, 193 one byte more; 65536 is one too many for make
Lines == <<Line(48), Line(100), Line(192), Line(193), Line(65536)>>

\* the lines draw_pbm is tried on, by index
PbmLines == {1, 3}

Speeds == {35, 45}

Energies == {8000}

Feeds == {50, 300}

Calls ==
  {[op |-> "prepare", a |-> s, b |-> e, body |-> prepare(s, e)] :
     s \in Speeds, e \in Energies}
  \cup {[op |-> "finish", a |-> f, b |-> 0, body |-> finish(f)] : f \in Feeds}
  \cup {[op |-> "draw", a |-> k, b |-> 0, body |-> draw(Lines[k])] :
          k \in DOMAIN Lines}
  \cup {[op |-> "draw_pbm", a |-> k, b |-> 0, body |-> draw_pbm(Lines[k])] :
          k \in PbmLines}
  \cup {[op |-> "flush", a |-> 0, b |-> 0, body |-> flush]}

NoCall ==
  [op |-> "none", a |-> 0, b |-> 0, buf |-> <<>>, nsink |-> 0, nsent |-> 0,
   nflush |-> 0]

NoFlush == [buf |-> <<>>, nsink |-> 0, waited |-> FALSE]

NoImage == [fn |-> "none"]

NoSend == [data |-> <<>>, buf |-> <<>>, nsink |-> 0, nflush |-> 0, nstored |-> 0]

Init ==
  /\ buffer = [k \in 1 .. mtu |-> 0]
  /\ buffer_size = 0
  /\ pause = 0
  /\ sink = <<>>
  /\ todo = <<>>
  /\ status = "idle"
  /\ call = NoCall
  /\ fl = NoFlush
  /\ sd = NoSend
  /\ ev = "init"
  /\ ncalls = 0
  /\ nfails = 0
  /\ nflush = 0
  /\ sent = <<>>
  /\ sent_len = <<>>
  /\ nstored = 0
  /\ mk_arg = <<>>
  /\ mk_res = <<>>
  /\ im_arg = NoImage
  /\ im_loc = <<>>
  /\ im_res = <<>>

(***************************************************************************)
(* A top-level call: the caller awaits one method of the session.  No two  *)
(* calls on a session run at once.                                         *)
(***************************************************************************)
Begin(c) ==
  /\ status # "running"
  /\ ncalls < MaxCalls
  /\ ncalls' = ncalls + 1
  /\ call' = [op |-> c.op, a |-> c.a, b |-> c.b, buf |-> buffered,
              nsink |-> Len(sink), nsent |-> Len(sent), nflush |-> nflush]
  /\ todo' = c.body
  /\ status' = "running"
  /\ ev' = "call"
  /\ UNCHANGED <<buffer, buffer_size, pause, sink, fl, sd, nfails, nflush,
                 sent, sent_len, nstored, mk_arg, mk_res, image>>

CallPrepare == \E c \in Calls : c.op = "prepare" /\ Begin(c)

CallFinish == \E c \in Calls : c.op = "finish" /\ Begin(c)

CallDraw == \E c \in Calls : c.op = "draw" /\ Begin(c)

CallDrawPbm == \E c \in Calls : c.op = "draw_pbm" /\ Begin(c)

CallFlush == \E c \in Calls : c.op = "flush" /\ Begin(c)

\* the coroutine is running and its next awaited call, or the point where it
\* is suspended, is of kind kind
At(kind) == status = "running" /\ todo # <<>> /\ Head(todo).k = kind

\* status once the call at the head of todo has returned
Returned(rest) == IF rest = <<>> THEN "returned" ELSE "running"

\* evaluating make(...) for the argument of send raised: the exception
\* leaves the method
RaiseStep ==
  /\ At("raise")
  /\ todo' = <<>>
  /\ status' = "ValueError"
  /\ ev' = "raise"
  /\ UNCHANGED <<buffer, buffer_size, pause, sink, call, fl, sd, ncalls,
                 nfails, nflush, sent, sent_len, nstored, mk_arg, mk_res,
                 image>>

(***************************************************************************)
(* CatPrinter.flush                                                        *)
(***************************************************************************)
\* From the test of "while self.state['pause']", which found the flag set
\* (paused) or clear, to the next point where flush suspends or returns:
\*   while self.state['pause']: await asyncio.sleep(0.1)
\*   if self.buffer_size == 0: return
\*   await self.write(bytes(self.buffer[:self.buffer_size]))
\* rest is what the caller of flush does after it.
FlushFrom(paused, rest) ==
  IF paused
    THEN /\ todo' = <<Instr("sleep", <<>>)>> \o rest
         /\ status' = "running"
         /\ ev' = "flush_sleep"
         /\ UNCHANGED sink
    ELSE IF buffer_size = 0
      THEN /\ todo' = rest
           /\ status' = Returned(rest)
           /\ ev' = "flush_return"
           /\ UNCHANGED sink
      ELSE /\ sink' = Append(sink, [data |-> buffered,
                                    off |-> nstored - buffer_size,
                                    st |-> "inflight"])
           /\ todo' = <<Instr("write", buffered)>> \o rest
           /\ status' = "running"
           /\ ev' = "flush_write"

\* flush is called
FlushStep ==
  /\ At("flush")
  /\ nflush' = nflush + 1
  /\ fl' = [buf |-> buffered, nsink |-> Len(sink), waited |-> FALSE]
  /\ FlushFrom(pause # 0, Tail(todo))
  /\ UNCHANGED <<buffer, buffer_size, pause, call, sd, ncalls, nfails, sent,
                 sent_len, nstored, mk_arg, mk_res, image>>

\* flush that tests the paused flag once ("if" for "while"): after the sleep
\* it goes on without testing again
FlushWake_untested ==
  /\ At("sleep")
  /\ fl' = [fl EXCEPT !.waited = TRUE]
  /\ FlushFrom(FALSE, Tail(todo))
  /\ UNCHANGED <<buffer, buffer_size, pause, call, sd, ncalls, nfails, nflush,
                 sent, sent_len, nstored, mk_arg, mk_res, image>>

\* asyncio.sleep(0.1) is over: back to the test of the while loop
FlushWake ==
  /\ At("sleep")
  /\ fl' = [fl EXCEPT !.waited = TRUE]
  /\ FlushFrom(pause # 0, Tail(todo))
  /\ UNCHANGED <<buffer, buffer_size, pause, call, sd, ncalls, nfails, nflush,
                 sent, sent_len, nstored, mk_arg, mk_res, image>>

\* flush that forgets to reset the cursor after the write
WriteOk_noreset ==
  /\ At("write")
  /\ sink' = [sink EXCEPT ![Len(sink)].st = "ok"]
  /\ todo' = <<Instr("delay", <<>>)>> \o Tail(todo)
  /\ ev' = "write_ok"
  /\ UNCHANGED <<buffer, buffer_size, pause, status, call, fl, sd, ncalls,
                 nfails, nflush, sent, sent_len, nstored, mk_arg, mk_res,
                 image>>

\* self.write returned: self.buffer_size = 0, then await asyncio.sleep(0.02)
WriteOk ==
  /\ At("write")
  /\ sink' = [sink EXCEPT ![Len(sink)].st = "ok"]
  /\ buffer_size' = 0
  /\ todo' = <<Instr("delay", <<>>)>> \o Tail(todo)
  /\ ev' = "write_ok"
  /\ UNCHANGED <<buffer, pause, status, call, fl, sd, ncalls, nfails, nflush,
                 sent, sent_len, nstored, mk_arg, mk_res, image>>

\* self.write raised: nothing in flush, send, prepare or finish catches it
WriteFail ==
  /\ At("write")
  /\ nfails < MaxFails
  /\ nfails' = nfails + 1
  /\ sink' = [sink EXCEPT ![Len(sink)].st = "failed"]
  /\ todo' = <<>>
  /\ status' = "WriteError"
  /\ ev' = "raise"
  /\ UNCHANGED <<buffer, buffer_size, pause, call, fl, sd, ncalls, nflush,
                 sent, sent_len, nstored, mk_arg, mk_res, image>>

\* asyncio.sleep(0.02) is over: flush returns
FlushDelay ==
  /\ At("delay")
  /\ todo' = Tail(todo)
  /\ status' = Returned(Tail(todo))
  /\ ev' = "flush_return"
  /\ UNCHANGED <<buffer, buffer_size, pause, sink, call, fl, sd, ncalls,
                 nfails, nflush, sent, sent_len, nstored, mk_arg, mk_res,
                 image>>

(***************************************************************************)
(* CatPrinter.send                                                         *)
(***************************************************************************)
\* send flushing already when the data would fill the buffer exactly
send_flushes_early(size, data) == size + Len(data) >= mtu

\* if self.buffer_size + len(data) > self.mtu
send_flushes(size, data) == size + Len(data) > mtu

\* send is called: await self.flush() if the data does not fit, then pend
SendStep ==
  /\ At("send")
  /\ LET data == Head(todo).data
         over == send_flushes(buffer_size, data)
     IN  /\ sd' = [data |-> data, buf |-> buffered, nsink |-> Len(sink),
                   nflush |-> nflush, nstored |-> nstored]
         /\ sent' = sent \o data
         /\ sent_len' = Append(sent_len, Len(data))
         /\ todo' = (IF over THEN flush ELSE <<>>)
                      \o <<Instr("pend", data)>> \o Tail(todo)
  /\ ev' = "send"
  /\ UNCHANGED <<buffer, buffer_size, pause, sink, status, call, fl, ncalls,
                 nfails, nflush, nstored, mk_arg, mk_res, image>>

\* self.pend(data), after which send returns; an IndexError leaves send
PendStep ==
  /\ At("pend")
  /\ LET r == pend(buffer, buffer_size, Head(todo).data)
     IN  /\ buffer' = r.buffer
         /\ buffer_size' = r.buffer_size
         /\ nstored' = nstored + (r.buffer_size - buffer_size)
         /\ IF r.raised
              THEN /\ todo' = <<>>
                   /\ status' = "IndexError"
                   /\ ev' = "raise"
              ELSE /\ todo' = Tail(todo)
                   /\ status' = Returned(Tail(todo))
                   /\ ev' = "send_return"
  /\ UNCHANGED <<pause, sink, call, fl, sd, ncalls, nfails, nflush, sent,
                 sent_len, mk_arg, mk_res, image>>

(***************************************************************************)
(* The paused flag.  Nothing in the session writes self.state['pause']: it *)
(* is set and cleared from outside, which can only run while the session's *)
(* coroutine is suspended or between two calls.                            *)
(***************************************************************************)
Suspended ==
  \/ status # "running"
  \/ At("sleep")
  \/ At("write")
  \/ At("delay")

SetPause ==
  /\ Suspended
  /\ pause = 0
  /\ pause' = 1
  /\ UNCHANGED <<buffer, buffer_size, sink, todo, status, call, fl, sd, ev,
                 ncalls, nfails, nflush, sent, sent_len, nstored, mk_arg,
                 mk_res, image>>

ClearPause ==
  /\ Suspended
  /\ pause # 0
  /\ pause' = 0
  /\ UNCHANGED <<buffer, buffer_size, sink, todo, status, call, fl, sd, ev,
                 ncalls, nfails, nflush, sent, sent_len, nstored, mk_arg,
                 mk_res, image>>

Next ==
  \/ CallPrepare
  \/ CallFinish
  \/ CallDraw
  \/ CallDrawPbm
  \/ CallFlush
  \/ RaiseStep
  \/ FlushStep
  \/ FlushWake
  \/ WriteOk
  \/ WriteFail
  \/ FlushDelay
  \/ SendStep
  \/ PendStep
  \/ SetPause
  \/ ClearPause

Spec == Init /\ [][Next]_vars

(***************************************************************************)
(* make alone: the frame codec as a pure function of its arguments.        *)
(***************************************************************************)
Pat(n, seed) == [i \in 1 .. n |-> (i * 7 + seed) % 256]

MakeInputs ==
  ({BITMAP, GET_DEVICE_STATE, FEED} \X
     {Pat(n, 3) : n \in {0, 1, 2, 3, 11, 48, 193, 255, 256, 257, 513, 1000}} \X
     {TRANSFER, RESPONSE})
  \cup {<<BITMAP, Pat(65535, 5), TRANSFER>>,
        <<LATTICE, Pat(65535, 9), RESPONSE>>,
        <<BITMAP, Pat(65536, 5), TRANSFER>>,
        <<BITMAP, Pat(70000, 5), RESPONSE>>}

InitMake ==
  /\ buffer = [k \in 1 .. mtu |-> 0]
  /\ buffer_size = 0
  /\ pause = 0
  /\ sink = <<>>
  /\ todo = <<>>
  /\ status = "idle"
  /\ call = NoCall
  /\ fl = NoFlush
  /\ sd = NoSend
  /\ ev = "init"
  /\ ncalls = 0
  /\ nfails = 0
  /\ nflush = 0
  /\ sent = <<>>
  /\ sent_len = <<>>
  /\ nstored = 0
  /\ mk_arg \in MakeInputs
  /\ mk_res = <<>>
  /\ im_arg = NoImage
  /\ im_loc = <<>>
  /\ im_res = <<>>

MakeCall ==
  /\ mk_res = <<>>
  /\ mk_res' = <<make(mk_arg[1], mk_arg[2], mk_arg[3])>>
  /\ UNCHANGED <<mk_arg, session, image>>

NextMake == MakeCall

SpecMake == InitMake /\ [][NextMake]_vars

(***************************************************************************)
(* ThermalPrinterCLI: the image functions, each alone as a function of its  *)
(* arguments.  RGBA data is the sequence of bytes R, G, B, A of each pixel, *)
(* row after row.                                                          *)
(***************************************************************************)
\* The triples (r, g, b) at which the double r * 0.2125 + g * 0.7154 +
\* b * 0.0721 falls just below the whole number the exact sum is, so that
\* int() yields one less than the exact quotient.  At every other triple of
\* bytes int() of the double is the floor of the exact sum.
TruncatedBelow ==
  {<<4, 131, 6>>, <<38, 245, 120>>, <<43, 43, 43>>, <<69, 102, 227>>,
   <<73, 233, 233>>, <<81, 1, 1>>, <<84, 4, 4>>, <<84, 131, 6>>,
   <<85, 5, 5>>, <<86, 86, 86>>, <<91, 11, 11>>, <<91, 91, 91>>,
   <<109, 29, 29>>, <<116, 36, 36>>, <<116, 69, 194>>, <<118, 245, 120>>,
   <<123, 43, 43>>, <<139, 12, 137>>, <<149, 102, 227>>, <<152, 72, 72>>,
   <<153, 233, 233>>, <<162, 2, 2>>, <<163, 3, 3>>, <<166, 86, 86>>,
   <<167, 167, 167>>, <<168, 8, 8>>, <<168, 41, 166>>, <<170, 10, 10>>,
   <<170, 137, 12>>, <<171, 91, 91>>, <<172, 172, 172>>, <<173, 13, 13>>,
   <<173, 46, 171>>, <<178, 51, 176>>, <<182, 22, 22>>, <<182, 55, 180>>,
   <<182, 182, 182>>, <<183, 23, 23>>, <<187, 27, 27>>, <<187, 60, 185>>,
   <<187, 187, 187>>, <<196, 69, 194>>, <<198, 245, 120>>, <<212, 5, 130>>,
   <<213, 53, 53>>, <<217, 10, 135>>, <<218, 11, 136>>, <<218, 58, 58>>,
   <<223, 63, 63>>, <<232, 72, 72>>, <<233, 233, 233>>, <<242, 2, 2>>,
   <<243, 3, 3>>, <<246, 86, 86>>, <<247, 167, 167>>, <<248, 8, 8>>,
   <<248, 41, 166>>, <<250, 10, 10>>, <<250, 137, 12>>, <<251, 91, 91>>,
   <<252, 172, 172>>, <<253, 13, 13>>, <<253, 46, 171>>}

\* gray = int(r * 0.2125 + g * 0.7154 + b * 0.0721)
gray_of(r, g, b) ==
  (2125 * r + 7154 * g + 721 * b) \div 10000
    - (IF <<r, g, b>> \in TruncatedBelow THEN 1 ELSE 0)

\* the threshold comparing with >= for >
apply_threshold_dither_inclusive(img_data, width, height) ==
  IF Len(img_data) % 4 # 0 THEN Raise_ValueError
  ELSE [k \in 1 .. Len(img_data) |->
          LET i == 4 * ((k - 1) \div 4)
              gray == gray_of(img_data[i + 1], img_data[i + 2], img_data[i + 3])
          IN  IF k % 4 = 0 THEN img_data[k]
              ELSE IF gray >= 128 THEN 255 ELSE 0]

\* for i in range(0, len(img_data), 4): r, g, b, a = img_data[i:i+4];
\*   gray = 255 if gray > 128 else 0; result[i:i+4] = [gray, gray, gray, a]
\* Unpacking fewer than four bytes raises ValueError.
apply_threshold_dither(img_data, width, height) ==
  IF Len(img_data) % 4 # 0 THEN Raise_ValueError
  ELSE [k \in 1 .. Len(img_data) |->
          LET i == 4 * ((k - 1) \div 4)
              gray == gray_of(img_data[i + 1], img_data[i + 2], img_data[i + 3])
          IN  IF k % 4 = 0 THEN img_data[k]
              ELSE IF gray > 128 THEN 255 ELSE 0]

\* RGBA data of a raster of n pixels, all of one colour
Uniform(n, r, g, b, a) ==
  [k \in 1 .. 4 * n |->
     IF k % 4 = 1 THEN r ELSE IF k % 4 = 2 THEN g ELSE IF k % 4 = 3 THEN b ELSE a]

\* channel values and alpha values the threshold is tried on
ThresholdLevels == {0, 43, 127, 128, 129, 255}

ThresholdAlphas == {0, 77, 255}

ThresholdInputs ==
  {[fn |-> "apply_threshold_dither", data |-> <<r, g, b, a>>, width |-> 1,
    height |-> 1] :
     r \in ThresholdLevels, g \in ThresholdLevels, b \in ThresholdLevels,
     a \in ThresholdAlphas}
  \cup {[fn |-> "apply_threshold_dither", data |-> Uniform(w * h, v, v, v, 255),
         width |-> w, height |-> h] :
          w \in {2, 16}, h \in {2, 8}, v \in {0, 128, 255}}

(***************************************************************************)
(* ThermalPrinterCLI.apply_floyd_steinberg_dither.  The code computes in    *)
(* doubles; the model computes the same expressions in fixed point, in      *)
(* units of 1/Unit.  Unit is 16^4, so that four successive divisions by 16  *)
(* are exact: on the rasters of SteinbergInputs every value the loop meets  *)
(* is a whole number of units, and the model's arithmetic is exact.         *)
(***************************************************************************)
Unit == 16 * 16 * 16 * 16

Raise_IndexError == <<-2>>

\* num / den in units of 1/Unit, truncated, for num >= 0 and 0 < den < 2^23
Fixed(num, den) ==
  LET r0 == num % den
      q1 == (r0 * 256) \div den
      r1 == (r0 * 256) % den
      q2 == (r1 * 256) \div den
  IN  (num \div den) * Unit + q1 * 256 + q2

\* alpha = a / 255.0; a pixel with alpha < 1.0 is blended towards white,
\* c += (255 - c) * (1.0 - alpha); an opaque one is left as it is (c *= alpha
\* with alpha = 1.0).  The result is in units of 1/255.
blend(c, a) == IF a < 255 THEN c * 255 + (255 - c) * (255 - a) ELSE c * 255

\* gray = r * 0.2125 + g * 0.7154 + b * 0.0721 of the blended channels
gray_blended(r, g, b, a) ==
  Fixed(2125 * blend(r, a) + 7154 * blend(g, a) + 721 * blend(b, a), 2550000)

\* mono: one gray value per pixel.  Unpacking fewer than four bytes raises.
rgba_to_mono(img_data) ==
  [n \in 1 .. (Len(img_data) \div 4) |->
     gray_blended(img_data[4 * n - 3], img_data[4 * n - 2],
                  img_data[4 * n - 1], img_data[4 * n])]

\* the targets when the test "j < height - 1" is missing from the third if
diffusion_targets_unbounded(p, i, j, width, height) ==
  (IF i >= 0 /\ i < width - 1 /\ j >= 0 /\ j < height
     THEN <<<<p + 1, 7>>>> ELSE <<>>)
  \o (IF i >= 1 /\ i < width /\ j >= 0 /\ j < height - 1
        THEN <<<<p + width - 1, 3>>>> ELSE <<>>)
  \o (IF i >= 0 /\ i < width /\ j >= 0
        THEN <<<<p + width, 5>>>> ELSE <<>>)
  \o (IF i >= 0 /\ i < width - 1 /\ j >= 0 /\ j < height - 1
        THEN <<<<p + width + 1, 1>>>> ELSE <<>>)

\* the pixels the error of pixel (i, j) at index p is added to, in the order
\* of the four if statements, each with its weight in sixteenths
diffusion_targets(p, i, j, width, height) ==
  (IF i >= 0 /\ i < width - 1 /\ j >= 0 /\ j < height
     THEN <<<<p + 1, 7>>>> ELSE <<>>)
  \o (IF i >= 1 /\ i < width /\ j >= 0 /\ j < height - 1
        THEN <<<<p + width - 1, 3>>>> ELSE <<>>)
  \o (IF i >= 0 /\ i < width /\ j >= 0 /\ j < height - 1
        THEN <<<<p + width, 5>>>> ELSE <<>>)
  \o (IF i >= 0 /\ i < width - 1 /\ j >= 0 /\ j < height - 1
        THEN <<<<p + width + 1, 1>>>> ELSE <<>>)

\* One turn of the inner loop, at pixel (i, j) of index p:
\*   m = mono[p]; n = 255 if m > 128 else 0; o = m - n; mono[p] = n
\*   mono[t] += o * w / 16 for each target, in order;  p += 1
\* An index past the end of mono raises IndexError, which leaves what the
\* statements before it did.  touched is the set of indices the turn added
\* error to, or tried to.
steinberg_pixel(loc, width, height) ==
  LET p == loc.p
      size == Len(loc.mono)
      m == loc.mono[p + 1]
      n == IF m > 128 * Unit THEN 255 * Unit ELSE 0
      o == m - n
      ts == diffusion_targets(p, loc.i, loc.j, width, height)
      bad == {k \in 1 .. Len(ts) : ts[k][1] >= size}
      done == IF bad = {} THEN Len(ts)
              ELSE (CHOOSE k \in bad : \A l \in bad : k <= l) - 1
      c(k, q) == IF k <= done /\ ts[k][1] = q THEN (o * ts[k][2]) \div 16 ELSE 0
      tried == IF bad = {} THEN done ELSE done + 1
  IN  IF p >= size
        THEN [loc EXCEPT !.raised = TRUE, !.touched = {}]
        ELSE [mono |-> [q \in 1 .. size |->
                          (IF q = p + 1 THEN n ELSE loc.mono[q])
                            + c(1, q - 1) + c(2, q - 1) + c(3, q - 1)
                            + c(4, q - 1)],
              p |-> p + 1,
              i |-> IF loc.i + 1 = width THEN 0 ELSE loc.i + 1,
              j |-> IF loc.i + 1 = width THEN loc.j + 1 ELSE loc.j,
              last |-> p,
              touched |-> {ts[k][1] : k \in 1 .. tried},
              raised |-> bad # {}]

\* for i in range(len(mono)): gray = int(max(0, min(255, mono[i])));
\*   result[4 * i : 4 * i + 4] = [gray, gray, gray, 255]
mono_to_rgba(mono, img_data) ==
  [k \in 1 .. Len(img_data) |->
     IF k % 4 = 0 THEN 255
     ELSE LET v == mono[(k + 3) \div 4]
          IN  (IF v < 0 THEN 0 ELSE IF v > 255 * Unit THEN 255 * Unit ELSE v)
                \div Unit]

\* gray levels, each with its alpha, the diffusion is tried on: opaque ones,
\* a transparent black and a fifth-opaque gray that blends to 230
SteinbergPalette ==
  {<<0, 0, 0, 255>>, <<100, 100, 100, 255>>, <<200, 200, 200, 255>>,
   <<255, 255, 255, 255>>, <<0, 0, 0, 0>>, <<130, 130, 130, 51>>}

SteinbergSmallPalette ==
  {<<100, 100, 100, 255>>, <<200, 200, 200, 255>>, <<130, 130, 130, 51>>}

\* the rasters of the given shape whose pixels are drawn from palette
Rasters(width, height, palette) ==
  {[fn |-> "apply_floyd_steinberg_dither",
    data |-> [k \in 1 .. 4 * width * height |->
               px[(k + 3) \div 4][((k - 1) % 4) + 1]],
    width |-> width, height |-> height] :
     px \in [1 .. width * height -> palette]}

\* shapes on which no pixel is more than four diffusions away from the first
SteinbergInputs ==
  Rasters(1, 1, SteinbergPalette) \cup Rasters(2, 1, SteinbergPalette)
    \cup Rasters(1, 2, SteinbergPalette) \cup Rasters(3, 1, SteinbergPalette)
    \cup Rasters(1, 3, SteinbergPalette) \cup Rasters(2, 2, SteinbergPalette)
    \cup Rasters(3, 2, SteinbergSmallPalette)

\* apply_floyd_steinberg_dither as a function: the loop run to its end
RECURSIVE steinberg_loop(_, _, _)
steinberg_loop(loc, width, height) ==
  IF loc.raised \/ loc.j >= height THEN loc
  ELSE steinberg_loop(steinberg_pixel(loc, width, height), width, height)

apply_floyd_steinberg_dither(img_data, width, height) ==
  IF Len(img_data) % 4 # 0 THEN Raise_ValueError
  ELSE LET loc == steinberg_loop([mono |-> rgba_to_mono(img_data), p |-> 0,
                                  i |-> 0, j |-> 0, last |-> -1,
                                  touched |-> {}, raised |-> FALSE],
                                 width, height)
       IN  IF loc.raised THEN Raise_IndexError
           ELSE mono_to_rgba(loc.mono, img_data)

(***************************************************************************)
(* ThermalPrinterCLI.rgba_to_bits and bitmap_to_print_data.  An image is    *)
(* [width, height, bands, data]: data holds bands bytes per pixel, row      *)
(* after row (3 for mode RGB, 4 for mode RGBA).                             *)
(***************************************************************************)
\* rgba_to_bits with the first pixel of a group in the highest bit
rgba_to_bits_msb_first(rgba_data, width, height) ==
  IF Len(rgba_data) % 4 # 0 THEN Raise_ValueError
  ELSE [p \in 1 .. ((Len(rgba_data) \div 4) \div 8) |->
          LET bit(d) == IF rgba_data[4 * (8 * (p - 1) + d) + 1] < 128
                          THEN Shl(1, 7 - d) ELSE 0
          IN  bit(0) + bit(1) + bit(2) + bit(3) + bit(4) + bit(5) + bit(6)
                + bit(7)]

\* rgba_array[i] = r | (g << 8) | (b << 16) | (a << 24), of which only
\* rgba_array[i] & 0xff, the byte r, is used.  length = len(rgba_array) // 8,
\* and bit d of result[p] is set when pixel 8 * p + d has r < 128: width and
\* height are not used.
rgba_to_bits(rgba_data, width, height) ==
  IF Len(rgba_data) % 4 # 0 THEN Raise_ValueError
  ELSE [p \in 1 .. ((Len(rgba_data) \div 4) \div 8) |->
          LET bit(d) == IF rgba_data[4 * (8 * (p - 1) + d) + 1] < 128
                          THEN Shl(1, d) ELSE 0
          IN  bit(0) + bit(1) + bit(2) + bit(3) + bit(4) + bit(5) + bit(6)
                + bit(7)]

\* s[start:end] of Python, for 0 <= start <= end
Slice(s, start, end) ==
  IF start >= Len(s) THEN <<>>
  ELSE SubSeq(s, start + 1, IF end > Len(s) THEN Len(s) ELSE end)

\* what stands for the image where an image was to be returned and
\* ValueError was raised
NoImageRaised == [raised |-> "ValueError"]

\* img.resize((width, height)).  A size of zero raises ValueError in PIL.
\* The value of a pixel is that of the source pixel under its centre: every
\* resampling filter gives this on an image of one colour, and the images
\* tried in widths above the paper width are of one colour.
resize(img, width, height) ==
  IF width < 1 \/ height < 1 THEN NoImageRaised
  ELSE [width |-> width, height |-> height, bands |-> img.bands,
        data |-> [k \in 1 .. img.bands * width * height |->
                    LET n == (k - 1) \div img.bands
                        x == ((2 * (n % width) + 1) * img.width) \div (2 * width)
                        y == ((2 * (n \div width) + 1) * img.height)
                               \div (2 * height)
                    IN  img.data[img.bands * (y * img.width + x)
                                   + ((k - 1) % img.bands) + 1]]]

\* the padding that puts one pixel more on the left than the code does
pad_to_width_right(img, paper_width) ==
  LET pad_amount == (paper_width - img.width + 1) \div 2
  IN  [width |-> paper_width, height |-> img.height, bands |-> img.bands,
       data |-> [k \in 1 .. img.bands * paper_width * img.height |->
                   LET n == (k - 1) \div img.bands
                       x == n % paper_width
                       y == n \div paper_width
                   IN  IF x >= pad_amount /\ x < pad_amount + img.width
                         THEN img.data[img.bands * (y * img.width + x - pad_amount)
                                         + ((k - 1) % img.bands) + 1]
                         ELSE 255]]

\* pad_amount = (self.paper_width - img.width) // 2
\* padded_image = Image.new(mode, (self.paper_width, img.height), white)
\* padded_image.paste(img, box=(pad_amount, 0))
pad_to_width(img, paper_width) ==
  LET pad_amount == (paper_width - img.width) \div 2
  IN  [width |-> paper_width, height |-> img.height, bands |-> img.bands,
       data |-> [k \in 1 .. img.bands * paper_width * img.height |->
                   LET n == (k - 1) \div img.bands
                       x == n % paper_width
                       y == n \div paper_width
                   IN  IF x >= pad_amount /\ x < pad_amount + img.width
                         THEN img.data[img.bands * (y * img.width + x - pad_amount)
                                         + ((k - 1) % img.bands) + 1]
                         ELSE 255]]

\* "Ensure image is exactly paper width": resized when wider, padded when
\* narrower.  int(img.height * self.paper_width / img.width) is the floor of
\* the quotient.
fit_to_paper(img, paper_width) ==
  IF img.width # paper_width
    THEN IF img.width > paper_width
           THEN resize(img, paper_width,
                       (img.height * paper_width) \div img.width)
           ELSE pad_to_width(img, paper_width)
    ELSE img

\* bytes_per_line = img.width // 8
\* lines = [bits[y * bytes_per_line : (y + 1) * bytes_per_line]
\*          for y in range(img.height)]
split_lines(bits, width, height) ==
  LET bytes_per_line == width \div 8
  IN  [y \in 1 .. height |->
         Slice(bits, (y - 1) * bytes_per_line, y * bytes_per_line)]

\* bitmap_to_print_data on an RGBA image, with its locals: img after the
\* fit to the paper width, dithered_data, bits and the lines returned
print_data_locals(img, is_image, paper_width) ==
  LET fitted == fit_to_paper(img, paper_width)
  IN  IF fitted = NoImageRaised
        THEN [raised |-> TRUE]
        ELSE LET rgba_data == fitted.data
                 dithered_data ==
                   IF is_image
                     THEN apply_floyd_steinberg_dither(rgba_data, fitted.width,
                                                       fitted.height)
                     ELSE apply_threshold_dither(rgba_data, fitted.width,
                                                 fitted.height)
                 bits == rgba_to_bits(dithered_data, fitted.width,
                                      fitted.height)
             IN  [raised |-> FALSE, img |-> fitted,
                  dithered_data |-> dithered_data, bits |-> bits,
                  lines |-> split_lines(bits, fitted.width, fitted.height)]

bitmap_to_print_data(img, is_image, paper_width) ==
  LET loc == print_data_locals(img, is_image, paper_width)
  IN  IF loc.raised THEN Raise_ValueError ELSE loc.lines

\* an RGBA image of opaque black and white pixels in a pattern set by seed
Pattern(width, height, seed) ==
  [width |-> width, height |-> height, bands |-> 4,
   data |-> [k \in 1 .. 4 * width * height |->
               LET n == (k - 1) \div 4
               IN  IF k % 4 = 0 THEN 255
                   ELSE IF ((n % width) * 5 + (n \div width) * 3 + seed) % 7 < 3
                     THEN 0 ELSE 255]]

\* an RGBA image of one gray level
Plain(width, height, v) ==
  [width |-> width, height |-> height, bands |-> 4,
   data |-> Uniform(width * height, v, v, v, 255)]

\* the images bitmap_to_print_data is tried on at paper width pw: as wide as
\* the paper, narrower by an even and by an odd number of pixels, and wider
ImagesFor(pw) ==
  {Pattern(w, h, seed) : w \in {pw, pw - 3, pw - 4, 1}, h \in 1 .. 3,
                         seed \in 0 .. 6}
  \cup {Plain(w, h, v) : w \in {pw, 2 * pw, 3 * pw + 1}, h \in {1, 2, 5},
                         v \in {0, 255}}

\* 384 pixels is the default; 8 and 16 are multiples of 8, 12 and 20 are not
PaperWidths == {8, 16, 12, 20}

PrintDataInputs ==
  UNION {{[fn |-> "bitmap_to_print_data", img |-> img, is_image |-> m,
            paper_width |-> pw] : img \in ImagesFor(pw), m \in BOOLEAN} :
           pw \in PaperWidths}
  \cup {[fn |-> "bitmap_to_print_data", img |-> Plain(16, 8, v),
         is_image |-> FALSE, paper_width |-> 16] : v \in {0, 255}}

\* dithered rasters with every first byte on either side of 128
BitsInputs ==
  {[fn |-> "rgba_to_bits",
    data |-> [k \in 1 .. 4 * w * h |->
                IF k % 4 = 1 THEN levels[((((k - 1) \div 4) * 3 + seed) % 5) + 1]
                ELSE (k * 11 + seed) % 256],
    width |-> w, height |-> h] :
     w \in {8, 16, 12}, h \in 1 .. 3, seed \in 0 .. 4,
     levels \in {<<0, 127, 128, 255, 64>>, <<128, 127, 129, 0, 127>>}}

(***************************************************************************)
(* ThermalPrinterCLI.image_to_bitmap, from the image in mode RGB that the   *)
(* conversion of the opened file leaves.                                    *)
(***************************************************************************)
\* img.convert('RGBA') of an RGB image
convert_rgba(img) ==
  [width |-> img.width, height |-> img.height, bands |-> 4,
   data |-> [k \in 1 .. 4 * img.width * img.height |->
               IF k % 4 = 0 THEN 255
               ELSE img.data[3 * ((k - 1) \div 4) + ((k - 1) % 4) + 1]]]

\* image_to_bitmap after the conversion to RGB, with the image it holds
\* after the resize (content) and the image it returns (img).
\*   if img.width > self.paper_width:
\*       height = int(img.height * (self.paper_width / img.width)); resize
\*   elif img.width < self.paper_width // 2:
\*       scale = self.paper_width // img.width; resize, NEAREST
\*   if img.width < self.paper_width: pad
\* The double img.height * (paper_width / img.width) is truncated to the
\* floor of the exact quotient at every size tried here (at some larger
\* sizes, such as height 49 and width 49 at paper width 8, it falls below
\* the whole quotient and int() yields one less).
image_to_bitmap_locals(img, paper_width) ==
  LET content ==
        IF img.width > paper_width
          THEN resize(img, paper_width,
                      (img.height * paper_width) \div img.width)
          ELSE IF img.width < paper_width \div 2
            THEN LET scale == paper_width \div img.width
                 IN  resize(img, img.width * scale, img.height * scale)
            ELSE img
  IN  IF content = NoImageRaised
        THEN [raised |-> TRUE]
        ELSE [raised |-> FALSE, content |-> content,
              img |-> convert_rgba(IF content.width < paper_width
                                     THEN pad_to_width(content, paper_width)
                                     ELSE content)]

image_to_bitmap(img, paper_width) ==
  LET loc == image_to_bitmap_locals(img, paper_width)
  IN  IF loc.raised THEN NoImageRaised ELSE loc.img

\* the RGB image of the colours of an RGBA image
Rgb(img) ==
  [width |-> img.width, height |-> img.height, bands |-> 3,
   data |-> [k \in 1 .. 3 * img.width * img.height |->
               img.data[4 * ((k - 1) \div 3) + ((k - 1) % 3) + 1]]]

\* the images image_to_bitmap is tried on at paper width pw: up to the paper
\* width, around half of it, small ones, and wider ones of one colour
OpenedImagesFor(pw) ==
  {Rgb(Pattern(w, h, seed)) :
     w \in {pw, pw - 1, pw - 3, pw \div 2, (pw \div 2) - 1, 3, 1},
     h \in 1 .. 3, seed \in 0 .. 2}
  \cup {Rgb(Plain(w, h, v)) : w \in {pw + 1, 2 * pw, 3 * pw + 1},
                               h \in {1, 2, 5}, v \in {0, 90}}

ImageToBitmapInputs ==
  UNION {{[fn |-> "image_to_bitmap", img |-> img, paper_width |-> pw] :
            img \in OpenedImagesFor(pw)} : pw \in PaperWidths}

ImageInputs ==
  ThresholdInputs \cup SteinbergInputs \cup BitsInputs \cup PrintDataInputs
    \cup ImageToBitmapInputs

InitImage ==
  /\ buffer = [k \in 1 .. mtu |-> 0]
  /\ buffer_size = 0
  /\ pause = 0
  /\ sink = <<>>
  /\ todo = <<>>
  /\ status = "idle"
  /\ call = NoCall
  /\ fl = NoFlush
  /\ sd = NoSend
  /\ ev = "init"
  /\ ncalls = 0
  /\ nfails = 0
  /\ nflush = 0
  /\ sent = <<>>
  /\ sent_len = <<>>
  /\ nstored = 0
  /\ mk_arg = <<>>
  /\ mk_res = <<>>
  /\ im_arg \in ImageInputs
  /\ im_loc = <<>>
  /\ im_res = <<>>

ThresholdCall ==
  /\ im_arg.fn = "apply_threshold_dither"
  /\ im_res = <<>>
  /\ im_res' = <<apply_threshold_dither(im_arg.data, im_arg.width,
                                        im_arg.height)>>
  /\ UNCHANGED <<im_arg, im_loc, session, mk_arg, mk_res>>

\* apply_floyd_steinberg_dither is called: the conversion to gray
SteinbergStart ==
  /\ im_arg.fn = "apply_floyd_steinberg_dither"
  /\ im_loc = <<>>
  /\ im_res = <<>>
  /\ IF Len(im_arg.data) % 4 # 0
       THEN im_res' = <<Raise_ValueError>> /\ UNCHANGED im_loc
       ELSE /\ im_loc' = <<[mono |-> rgba_to_mono(im_arg.data), p |-> 0,
                            i |-> 0, j |-> 0, last |-> -1, touched |-> {},
                            raised |-> FALSE]>>
            /\ UNCHANGED im_res
  /\ UNCHANGED <<im_arg, session, mk_arg, mk_res>>

\* one turn of "for j in range(height): for i in range(width)"
SteinbergPixel ==
  /\ im_arg.fn = "apply_floyd_steinberg_dither"
  /\ Len(im_loc) = 1
  /\ im_res = <<>>
  /\ ~im_loc[1].raised
  /\ im_loc[1].j < im_arg.height
  /\ im_loc' = <<steinberg_pixel(im_loc[1], im_arg.width, im_arg.height)>>
  /\ UNCHANGED <<im_arg, im_res, session, mk_arg, mk_res>>

\* the loops are over: the conversion back to RGBA, and the return
SteinbergFinish ==
  /\ im_arg.fn = "apply_floyd_steinberg_dither"
  /\ Len(im_loc) = 1
  /\ im_res = <<>>
  /\ im_loc[1].raised \/ im_loc[1].j >= im_arg.height
  /\ im_res' = <<IF im_loc[1].raised THEN Raise_IndexError
                 ELSE mono_to_rgba(im_loc[1].mono, im_arg.data)>>
  /\ UNCHANGED <<im_arg, im_loc, session, mk_arg, mk_res>>

BitsCall ==
  /\ im_arg.fn = "rgba_to_bits"
  /\ im_res = <<>>
  /\ im_res' = <<rgba_to_bits(im_arg.data, im_arg.width, im_arg.height)>>
  /\ UNCHANGED <<im_arg, im_loc, session, mk_arg, mk_res>>

PrintDataCall ==
  /\ im_arg.fn = "bitmap_to_print_data"
  /\ im_res = <<>>
  /\ im_loc' = <<print_data_locals(im_arg.img, im_arg.is_image,
                                   im_arg.paper_width)>>
  /\ im_res' = <<bitmap_to_print_data(im_arg.img, im_arg.is_image,
                                      im_arg.paper_width)>>
  /\ UNCHANGED <<im_arg, session, mk_arg, mk_res>>

ImageToBitmapCall ==
  /\ im_arg.fn = "image_to_bitmap"
  /\ im_res = <<>>
  /\ im_loc' = <<image_to_bitmap_locals(im_arg.img, im_arg.paper_width)>>
  /\ im_res' = <<image_to_bitmap(im_arg.img, im_arg.paper_width)>>
  /\ UNCHANGED <<im_arg, session, mk_arg, mk_res>>

NextImage ==
  \/ ThresholdCall
  \/ SteinbergStart
  \/ SteinbergPixel
  \/ SteinbergFinish
  \/ BitsCall
  \/ PrintDataCall
  \/ ImageToBitmapCall

SpecImage == InitImage /\ [][NextImage]_vars

(***************************************************************************)
(* Properties                                                              *)
(***************************************************************************)
\* C1: the bytes buffered when a sink write failed are lost: no later write
\* hands them to the sink again.  Bytes are told apart by their place in the
\* stream of bytes stored into the buffer (off is the place of the first byte
\* of a write): every write after a failed one starts past the failed one's
\* last byte.
C1_FailedBytesNeverWrittenAgain ==
  \A k \in DOMAIN sink : \A j \in DOMAIN sink :
    (k < j /\ sink[k].st = "failed")
      => sink[j].off >= sink[k].off + Len(sink[k].data)

\* a frame as the Frame invariant describes it starts at index i of s:
\* preamble, little-endian length of the payload that follows, crc8 of the
\* payload, terminator
FrameAt(s, i) ==
  /\ Len(s) >= i + 7
  /\ s[i] = \H51
  /\ s[i + 1] = \H78
  /\ LET n == s[i + 4] + 256 * s[i + 5]
     IN  /\ Len(s) >= i + n + 7
         /\ s[i + n + 6] = crc8(SubSeq(s, i + 6, i + n + 5))
         /\ s[i + n + 7] = \Hff

RECURSIVE FramesFrom(_, _)
FramesFrom(s, i) ==
  IF i > Len(s) THEN TRUE
  ELSE /\ FrameAt(s, i)
       /\ FramesFrom(s, i + s[i + 4] + 256 * s[i + 5] + 8)

\* s is exactly one frame
OneFrame(s) == FrameAt(s, 1) /\ Len(s) = s[5] + 256 * s[6] + 8

\* C2: every frame the session hands over for the sink satisfies the Frame
\* invariant, the camera-preparation frame included, and everything written
\* to the sink parses as a sequence of such frames.
C2_SinkStreamIsFrames ==
  /\ (ev = "send" => OneFrame(sd.data))
  /\ \A k \in DOMAIN sink : FramesFrom(sink[k].data, 1)

\* C3: the fill cursor stays within 0..mtu, the capacity of the buffer.
C3_CursorWithinCapacity ==
  /\ buffer_size >= 0
  /\ buffer_size <= mtu
  /\ buffer_size <= Len(buffer)

\* C3 witness: a send of more bytes than fit has run the cursor to mtu
C3_Witness == status = "IndexError" /\ buffer_size = mtu /\ Len(sd.data) > mtu

\* the send call running or last run was called with data that did not fit
C4_DidNotFit == Len(sd.buf) + Len(sd.data) > mtu

\* C4: a send whose data does not fit makes exactly one flush, whose only
\* write carries the bytes buffered before, before any byte of data is
\* stored, and returns with the buffer holding exactly data; a send whose
\* data fits makes no flush and no write and appends data.
C4_SendFlushesOnceBeforeStoring ==
  /\ (At("pend") /\ C4_DidNotFit) =>
       /\ nflush = sd.nflush + 1
       /\ nstored = sd.nstored
       /\ WritesSince(sd.nsink) = (IF sd.buf = <<>> THEN <<>> ELSE <<sd.buf>>)
       /\ buffer_size = 0
  /\ (ev = "send_return" /\ C4_DidNotFit) =>
       /\ nflush = sd.nflush + 1
       /\ WritesSince(sd.nsink) = <<sd.buf>>
       /\ buffered = sd.data
  /\ (ev = "send_return" /\ ~C4_DidNotFit) =>
       /\ nflush = sd.nflush
       /\ Len(sink) = sd.nsink
       /\ buffered = sd.buf \o sd.data

\* C4 witness: a send that had to flush buffered bytes has returned
C4_Witness == ev = "send_return" /\ C4_DidNotFit /\ sd.buf # <<>>

\* C5: when flush returns the buffer is empty; called on an empty buffer it
\* wrote nothing, called on a non-empty one it made one write of exactly the
\* buffered bytes.
C5_FlushEmptiesWithOneWrite ==
  ev = "flush_return" =>
    /\ buffer_size = 0
    /\ WritesSince(fl.nsink) = (IF fl.buf = <<>> THEN <<>> ELSE <<fl.buf>>)

\* C5 witness: a flush called on a non-empty buffer has returned
C5_Witness == ev = "flush_return" /\ fl.buf # <<>>

\* C6: no write is handed to the sink while the paused flag is set: every
\* step that calls self.write starts with the flag clear and leaves it clear.
C6_NoWriteWhilePaused ==
  [][Len(sink') > Len(sink) => (pause = 0 /\ pause' = 0)]_vars

\* C6 witness: a flush that found the flag set and slept has made its write
C6_Witness == ev = "flush_write" /\ fl.waited /\ pause = 0

\* a Transfer frame of the given command and payload, as the spec lays it out
ExpectedFrame(command, payload) ==
  <<\H51, \H78, command, 0, Len(payload) % 256, Len(payload) \div 256>>
    \o payload \o <<crc8(payload), \Hff>>

LittleEndian2(v) == <<v % 256, v \div 256>>

\* the eight frames of prepare(speed, energy), in order
C7_Frames(speed, energy) ==
  ExpectedFrame(\Ha3, <<\H00>>)
    \o <<\H51, \H78, \Hbc, \H00, \H01, \H02, \H01, \H2d, \Hff>>
    \o ExpectedFrame(\Ha4, <<50>>)
    \o ExpectedFrame(\Hbd, <<speed>>)
    \o ExpectedFrame(\Haf, LittleEndian2(energy))
    \o ExpectedFrame(\Hbe, <<\H01>>)
    \o ExpectedFrame(\Ha9, <<\H00>>)
    \o ExpectedFrame(\Ha6, <<\Haa, \H55, \H17, \H38, \H44, \H5f, \H5f, \H5f,
                              \H44, \H38, \H2c>>)

\* what a call has the sink receive when it flushes the bytes buffered on
\* entry first, then enqueues frames, then flushes them
FlushedAround(frames) ==
  (IF call.buf = <<>> THEN <<>> ELSE <<call.buf>>) \o <<frames>>

\* C7: a prepare that has returned made two flushes, passed exactly the eight
\* frames to send in order, and the sink received the bytes buffered on entry
\* and then exactly these frames; the buffer is empty.
C7_PrepareSequence ==
  (call.op = "prepare" /\ status = "returned") =>
    /\ nflush = call.nflush + 2
    /\ SubSeq(sent, call.nsent + 1, Len(sent)) = C7_Frames(call.a, call.b)
    /\ WritesSince(call.nsink) = FlushedAround(C7_Frames(call.a, call.b))
    /\ buffer_size = 0

\* C7 witness: a prepare called with bytes in the buffer has returned
C7_Witness == call.op = "prepare" /\ status = "returned" /\ call.buf # <<>>

\* the four frames of finish(extra_feed), in order
C8_Frames(extra_feed) ==
  ExpectedFrame(\Ha6, <<\Haa, \H55, \H17, \H00, \H00, \H00, \H00, \H00, \H00,
                        \H00, \H17>>)
    \o ExpectedFrame(\Hbd, <<8>>)
    \o ExpectedFrame(\Ha1, LittleEndian2(extra_feed))
    \o ExpectedFrame(\Ha3, <<\H00>>)

\* C8: a finish that has returned, whatever the session state it was called
\* in, made two flushes, passed exactly the four frames to send in order, and
\* the sink received the bytes buffered on entry and then exactly these
\* frames; the buffer is empty.
C8_FinishSequence ==
  (call.op = "finish" /\ status = "returned") =>
    /\ nflush = call.nflush + 2
    /\ SubSeq(sent, call.nsent + 1, Len(sent)) = C8_Frames(call.a)
    /\ WritesSince(call.nsink) = FlushedAround(C8_Frames(call.a))
    /\ buffer_size = 0

\* C8 witness: a finish called before any prepare, with a drawn line still
\* in the buffer, has returned
C8_Witness ==
  /\ call.op = "finish"
  /\ status = "returned"
  /\ ncalls = 2
  /\ call.buf = ExpectedFrame(\Ha2, Lines[1])

\* C9: for a payload of length L <= 65535, make returns L + 8 bytes: 0x51,
\* 0x78, command, type, L mod 256, L div 256, the payload, crc8(payload), 0xFF.
C9_MakeLayout ==
  (Len(mk_res) = 1 /\ Len(mk_arg[2]) <= 65535) =>
    LET frame == mk_res[1]
        payload == mk_arg[2]
        L == Len(payload)
    IN  /\ Len(frame) = L + 8
        /\ frame[1] = \H51
        /\ frame[2] = \H78
        /\ frame[3] = mk_arg[1]
        /\ frame[4] = mk_arg[3]
        /\ frame[5] = L % 256
        /\ frame[6] = L \div 256
        /\ \A i \in 1 .. L : frame[6 + i] = payload[i]
        /\ frame[L + 7] = crc8(payload)
        /\ frame[L + 8] = \Hff

\* C9 witness: make has returned a Response frame for a payload whose length
\* needs both bytes of the length field
C9_Witness == Len(mk_res) = 1 /\ Len(mk_arg[2]) = 513 /\ mk_arg[3] = 1

\* the call running or last run is a draw of a line longer than 65535 bytes
C10_LongDraw ==
  call.op \in {"draw", "draw_pbm"} /\ Len(Lines[call.a]) > 65535

\* make raises ValueError on every line tried that is longer than 65535 bytes
C10_MakeRaises ==
  \A k \in DOMAIN Lines :
    Len(Lines[k]) > 65535 => make(BITMAP, Lines[k], TRANSFER) = Raise_ValueError

\* C10: make raises ValueError for a payload longer than 65535 bytes instead
\* of returning a frame, so a draw of such a line ends in that error: no
\* frame is passed to send, nothing is stored in the buffer and nothing is
\* written.
C10_OverlongPayloadRejected ==
  /\ C10_MakeRaises
  /\ C10_LongDraw =>
       /\ status \in {"running", "ValueError"}
       /\ status = "running" => At("raise")
       /\ Len(sent) = call.nsent
       /\ buffered = call.buf
       /\ Len(sink) = call.nsink

\* C10 witness: such a draw on a session with bytes in the buffer has raised
C10_Witness == C10_LongDraw /\ status = "ValueError" /\ call.buf # <<>>

\* the call running or last run is a draw of a line make accepts
C11_Draw == call.op \in {"draw", "draw_pbm"} /\ Len(Lines[call.a]) <= 65535

\* the frame a draw of each line enqueues, and the frame a draw_pbm does
C11_Frames ==
  [k \in DOMAIN Lines |->
     IF Len(Lines[k]) <= 65535 THEN ExpectedFrame(\Ha2, Lines[k]) ELSE <<>>]

C11_PbmFrames ==
  [k \in PbmLines |->
     ExpectedFrame(\Ha2, [i \in 1 .. Len(Lines[k]) |-> reversed[Lines[k][i]]])]

\* the frame that call enqueues
C11_Frame ==
  IF call.op = "draw_pbm" THEN C11_PbmFrames[call.a] ELSE C11_Frames[call.a]

C12_Luma(d, n) ==
  2125 * d[4 * n - 3] + 7154 * d[4 * n - 2] + 721 * d[4 * n - 1]

\* pixel n of RGBA data d
C12_Pixel(d, n) == SubSeq(d, 4 * n - 3, 4 * n)

\* the threshold function has returned the raster im_res[1]
C12_Done ==
  /\ im_arg.fn = "apply_threshold_dither"
  /\ Len(im_res) = 1
  /\ im_res[1] # Raise_ValueError

\* C12: threshold mode turns every pixel into (255, 255, 255, A) when its
\* exact luma 0.2125 R + 0.7154 G + 0.0721 B exceeds 128 and into
\* (0, 0, 0, A) otherwise, A being the pixel's alpha.
C12_ThresholdOnExactLuma ==
  C12_Done =>
    /\ Len(im_res[1]) = Len(im_arg.data)
    /\ \A n \in 1 .. (Len(im_arg.data) \div 4) :
         LET v == IF C12_Luma(im_arg.data, n) > 1280000 THEN 255 ELSE 0
         IN  C12_Pixel(im_res[1], n) = <<v, v, v, im_arg.data[4 * n]>>

\* C13 as stated: all-white dithers to all-255, all-black to all-0, and a
\* pixel whose luma is exactly 128 becomes white.
C13_Luma128IsWhite ==
  C12_Done =>
    \A n \in 1 .. (Len(im_arg.data) \div 4) :
      /\ C12_Pixel(im_arg.data, n) = <<255, 255, 255, 255>>
           => C12_Pixel(im_res[1], n) = <<255, 255, 255, 255>>
      /\ SubSeq(im_arg.data, 4 * n - 3, 4 * n - 1) = <<0, 0, 0>>
           => SubSeq(im_res[1], 4 * n - 3, 4 * n - 1) = <<0, 0, 0>>
      /\ C12_Luma(im_arg.data, n) = 1280000
           => SubSeq(im_res[1], 4 * n - 3, 4 * n - 1) = <<255, 255, 255>>

\* C13 as amended: all-white dithers to all-255, all-black to all-0, and a
\* pixel whose luma is exactly 128 becomes black: the boundary is strict.
C13_ThresholdBoundaries ==
  C12_Done =>
    \A n \in 1 .. (Len(im_arg.data) \div 4) :
      /\ C12_Pixel(im_arg.data, n) = <<255, 255, 255, 255>>
           => C12_Pixel(im_res[1], n) = <<255, 255, 255, 255>>
      /\ SubSeq(im_arg.data, 4 * n - 3, 4 * n - 1) = <<0, 0, 0>>
           => SubSeq(im_res[1], 4 * n - 3, 4 * n - 1) = <<0, 0, 0>>
      /\ C12_Luma(im_arg.data, n) = 1280000
           => SubSeq(im_res[1], 4 * n - 3, 4 * n - 1) = <<0, 0, 0>>

\* C13 witness: a raster of more than one pixel, all of luma exactly 128,
\* has been dithered
C13_Witness ==
  /\ C12_Done
  /\ Len(im_arg.data) > 4
  /\ \A n \in 1 .. (Len(im_arg.data) \div 4) :
       C12_Luma(im_arg.data, n) = 1280000

\* the index of pixel (x, y) when it lies inside the raster
C14_Inside(x, y) ==
  IF x >= 0 /\ x < im_arg.width /\ y >= 0 /\ y < im_arg.height
    THEN {y * im_arg.width + x} ELSE {}

\* C14: error diffusion returns a raster of the same w * h pixels, each with
\* R = G = B in {0, 255} and alpha 255, whatever the input alpha and the error
\* accumulated.  While it runs, pixels are quantized one by one in raster
\* order, the pixels already visited hold 0 or 255 and are not touched again,
\* and the error of a pixel goes only to its right, below-left, below and
\* below-right neighbours inside the raster, all of them at later indices
\* and none outside 0 .. w * h - 1.
C14_DiffusionQuantizesOnceInOrder ==
  im_arg.fn = "apply_floyd_steinberg_dither" =>
    LET w == im_arg.width
        h == im_arg.height
    IN  /\ Len(im_loc) = 1 =>
             LET loc == im_loc[1]
                 x == loc.last % w
                 y == loc.last \div w
             IN  /\ ~loc.raised
                 /\ Len(loc.mono) = w * h
                 /\ loc.p = loc.j * w + loc.i
                 /\ loc.last = loc.p - 1
                 /\ loc.p <= w * h
                 /\ \A q \in 1 .. loc.p : loc.mono[q] \in {0, 255 * Unit}
                 /\ \A t \in loc.touched : t > loc.last /\ t <= w * h - 1
                 /\ loc.last >= 0 =>
                      loc.touched =
                        C14_Inside(x + 1, y) \cup C14_Inside(x - 1, y + 1)
                          \cup C14_Inside(x, y + 1) \cup C14_Inside(x + 1, y + 1)
        /\ Len(im_res) = 1 =>
             /\ im_res[1] \notin {Raise_IndexError, Raise_ValueError}
             /\ Len(im_res[1]) = 4 * w * h
             /\ \A n \in 1 .. w * h :
                  \E v \in {0, 255} : C12_Pixel(im_res[1], n) = <<v, v, v, 255>>

\* C14 witness: a raster of three columns and two rows with a transparent
\* pixel has been dithered to some black and some white pixels
C14_Witness ==
  /\ im_arg.fn = "apply_floyd_steinberg_dither"
  /\ Len(im_res) = 1
  /\ im_arg.width = 3
  /\ im_arg.height = 2
  /\ \E n \in 1 .. 6 : im_arg.data[4 * n] < 255
  /\ \E n \in 1 .. 6 : im_res[1][4 * n - 3] = 0
  /\ \E n \in 1 .. 6 : im_res[1][4 * n - 3] = 255

\* bit d of byte v
C15_Bit(v, d) == BitAnd(Shr(v, d), 1)

\* bitmap_to_print_data has returned lines for a paper width that is a
\* multiple of 8
C15_Packed ==
  /\ im_arg.fn = "bitmap_to_print_data"
  /\ Len(im_res) = 1
  /\ im_arg.paper_width % 8 = 0
  /\ ~im_loc[1].raised

\* C15: from a dithered raster paperWidth pixels wide, paperWidth a multiple
\* of 8, and h rows high, the packer yields h lines of paperWidth / 8 bytes,
\* and bit d of byte k of line y is 1 exactly when the first channel byte of
\* pixel (8k + d, y) is below 128; so 8 white pixels pack to 0x00, 8 black
\* ones to 0xFF, and a black 16 x 8 raster at paper width 16 to 8 lines of
\* two bytes 0xFF.
C15_PackerBitOrder ==
  /\ C15_Packed =>
       LET loc == im_loc[1]
           w == loc.img.width
           h == loc.img.height
           lines == im_res[1]
       IN  /\ w = im_arg.paper_width
           /\ Len(lines) = h
           /\ \A y \in 1 .. h :
                /\ Len(lines[y]) = w \div 8
                /\ \A k \in 1 .. (w \div 8) : \A d \in 0 .. 7 :
                     C15_Bit(lines[y][k], d) = 1
                       <=> loc.dithered_data[4 * ((y - 1) * w + 8 * (k - 1) + d)
                                               + 1] < 128
  /\ (im_arg.fn = "rgba_to_bits" /\ Len(im_res) = 1 /\ im_arg.width % 8 = 0) =>
       /\ Len(im_res[1]) = (im_arg.width \div 8) * im_arg.height
       /\ \A p \in 1 .. Len(im_res[1]) : \A d \in 0 .. 7 :
            C15_Bit(im_res[1][p], d) = 1
              <=> im_arg.data[4 * (8 * (p - 1) + d) + 1] < 128
  /\ (C15_Packed /\ ~im_arg.is_image) =>
       /\ im_arg.img = Plain(16, 8, 0) => im_res[1] = [y \in 1 .. 8 |-> <<255, 255>>]
       /\ im_arg.img = Plain(16, 8, 255) => im_res[1] = [y \in 1 .. 8 |-> <<0, 0>>]

\* C15 witness: the black 16 x 8 raster has been packed at paper width 16
C15_Witness ==
  C15_Packed /\ im_arg.img = Plain(16, 8, 0) /\ im_arg.paper_width = 16

\* C16: when the paper width is not a multiple of 8 the pipeline ends in an
\* error and returns no lines.
C16_OddPaperWidthRejected ==
  /\ (im_arg.fn = "bitmap_to_print_data" /\ Len(im_res) = 1
        /\ im_arg.paper_width % 8 # 0) => im_loc[1].raised
  /\ (im_arg.fn = "rgba_to_bits" /\ Len(im_res) = 1 /\ im_arg.width % 8 # 0)
       => im_res[1] = Raise_ValueError

\* pixel (x, y) of an image
C17_Pixel(img, x, y) ==
  SubSeq(img.data, img.bands * (y * img.width + x) + 1,
         img.bands * (y * img.width + x) + img.bands)

\* image_to_bitmap has returned a raster
C17_Done ==
  /\ im_arg.fn = "image_to_bitmap"
  /\ Len(im_res) = 1
  /\ ~im_loc[1].raised

\* the raster returned is the content, opaque, from column left on and white
\* elsewhere, as high as the content and paperWidth wide
C17_PlacedAt(left) ==
  LET ras == im_res[1]
      content == im_loc[1].content
  IN  /\ ras.width = im_arg.paper_width
      /\ ras.height = content.height
      /\ ras.bands = 4
      /\ Len(ras.data) = 4 * ras.width * ras.height
      /\ \A x \in 0 .. (ras.width - 1) : \A y \in 0 .. (ras.height - 1) :
           C17_Pixel(ras, x, y) =
             IF x >= left /\ x < left + content.width
               THEN C17_Pixel(content, x - left, y) \o <<255>>
               ELSE <<255, 255, 255, 255>>

\* the content is the input downscaled to the paper width when wider,
\* upscaled by paperWidth div w when narrower than half of it, and the input
\* itself otherwise
C17_Content ==
  LET img == im_arg.img
      pw == im_arg.paper_width
      content == im_loc[1].content
      s == pw \div img.width
  IN  /\ img.width > pw => content.width = pw
      /\ img.width < pw \div 2 =>
           /\ content.width = img.width * s
           /\ content.height = img.height * s
           /\ \A x \in 0 .. (content.width - 1) :
                \A y \in 0 .. (content.height - 1) :
                  C17_Pixel(content, x, y) = C17_Pixel(img, x \div s, y \div s)
      /\ (img.width <= pw /\ img.width >= pw \div 2) => content = img

\* C17 as stated: the raster returned is paperWidth wide, its content scaled
\* as described, with as many white columns on the left as on the right.
C17_PaddingEqualBothSides ==
  C17_Done =>
    /\ C17_Content
    /\ \E left \in 0 .. im_arg.paper_width :
         /\ 2 * left = im_arg.paper_width - im_loc[1].content.width
         /\ C17_PlacedAt(left)

\* C17 as amended: the raster returned is paperWidth wide, its content scaled
\* as described, with (paperWidth - c) div 2 white columns on the left and
\* the rest on the right: as many when paperWidth - c is even, one more when
\* it is odd.
C17_NormalizedToPaperWidth ==
  C17_Done =>
    /\ C17_Content
    /\ C17_PlacedAt((im_arg.paper_width - im_loc[1].content.width) \div 2)

\* C17 witness: an upscaled image has been padded by an odd number of columns
C17_Witness ==
  /\ C17_Done
  /\ im_arg.img.width < im_arg.paper_width \div 2
  /\ im_loc[1].content.width > im_arg.img.width
  /\ (im_arg.paper_width - im_loc[1].content.width) % 2 = 1

\* no sink write of the session has failed and no byte string longer than
\* mtu has been passed to send
C18_Sound ==
  /\ \A k \in DOMAIN sink : sink[k].st # "failed"
  /\ \A k \in DOMAIN sent_len : sent_len[k] <= mtu

\* the bytes of the writes the sink has taken; the bytes of a write still
\* awaited are in the buffer until it returns
C18_Taken ==
  LET n == IF sink # <<>> /\ sink[Len(sink)].st = "inflight"
             THEN Len(sink) - 1 ELSE Len(sink)
  IN  Flat([k \in 1 .. n |-> sink[k].data])

\* the bytes passed to a send that has not stored them yet
C18_Pending ==
  IF \E k \in DOMAIN todo : todo[k].k = "pend" THEN sd.data ELSE <<>>

RECURSIVE C18_Sum(_, _)
C18_Sum(lens, j) == IF j = 0 THEN 0 ELSE lens[j] + C18_Sum(lens, j - 1)

\* the places in the stream of sent bytes where a byte string passed to send
\* begins or ends
C18_Boundaries == {C18_Sum(sent_len, j) : j \in 0 .. Len(sent_len)}

\* C18: while every sink write succeeds and nothing longer than mtu is
\* passed to send, the bytes taken by the sink, then the buffered bytes, then
\* the bytes of a send still under way, are the bytes passed to send in call
\* order; every write carries between 1 and mtu bytes, the bytes of the
\* stream at its place, and begins and ends where a byte string passed to
\* send does.
C18_StreamIntegrity ==
  C18_Sound =>
    /\ C18_Taken \o SubSeq(buffer, 1, buffer_size) \o C18_Pending = sent
    /\ \A k \in DOMAIN sink :
         /\ Len(sink[k].data) >= 1
         /\ Len(sink[k].data) <= mtu
         /\ sink[k].off + Len(sink[k].data) <= Len(sent)
         /\ sink[k].data
              = SubSeq(sent, sink[k].off + 1, sink[k].off + Len(sink[k].data))
         /\ sink[k].off \in C18_Boundaries
         /\ sink[k].off + Len(sink[k].data) \in C18_Boundaries
         /\ k > 1 => sink[k].off = sink[k - 1].off + Len(sink[k - 1].data)

\* C18 witness: the sink has taken a write of several frames and a frame
\* drawn since is in the buffer
C18_Witness ==
  /\ C18_Sound
  /\ status = "returned"
  /\ call.op = "draw"
  /\ Len(sink) = 1
  /\ sink[1].st = "ok"
  /\ Len(sent_len) > 2
  /\ Len(sink[1].data) > sent_len[1]
  /\ buffer_size > 0

\* C19: a send stores all of its data or none of it: when it fails, no byte
\* of the data has gone into the buffer, so no later flush can deliver a part
\* of it.
C19_AtomicEnqueue ==
  status = "IndexError" =>
    /\ nstored = sd.nstored
    /\ buffer_size \in {0, Len(sd.buf)}

\* C20: a flush called on an empty buffer returns without waiting for the
\* paused flag: a flush that waits has bytes to write.
C20_EmptyFlushDoesNotWait == At("sleep") => fl.buf # <<>>

====
